---- MODULE Spec2Model ----
(***************************************************************************)
(* goreactor: the SQS input dispatcher (inputs/sqs/pool.go), the reactor   *)
(* log (lib/reactorlog.go) and the HTTP health view.                       *)
(*                                                                         *)
(* Spec      the dispatcher: receive loop, deliver, hand-off goroutines,   *)
(*           workers' Done callbacks, AddOrUpdate.                         *)
(* SpecExit  the dispatcher through shutdown: Stop/Exit, the drain loop,   *)
(*           closed inbox channels.                                        *)
(* SpecExitFair  the same under fair scheduling.                           *)
(* SpecUpdate  AddOrUpdate callers running concurrently.                   *)
(* SpecDone  Done applied in every state of pendings and messError.        *)
(* SpecLog   one pooled ReactorLog through successive executions.          *)
(* SpecHealth the health handler over reactor liveness timestamps.         *)
(***************************************************************************)
EXTENDS Integers, Sequences, FiniteSets, TLC

\* ---------------------------------------------------------------- bounds
MaxReceives == 2          \* messages the queue hands out in total
MaxExitReceives == 2      \* the same, in the shutdown specification
MaxFairReceives == 1      \* the same, in the fair shutdown specification
MaxBatch == 2             \* messages in one ReceiveMessage response
MaxUpdates == 1           \* AddOrUpdate calls after construction
MaxRaceUpdates == 2       \* the same, where only AddOrUpdate callers run
MaxConcurrent == 2        \* largest Reactor.Concurrent configured
ChanCap == 1              \* capacity of a reactor's inbox channel

MaxPending == 2           \* largest count drawn for an entry of pendings

MaxWrites == 2            \* Write calls in one execution
MaxWriteLen == 2          \* bytes in one Write
MaxExecs == 2             \* executions that use the pooled log in turn
MaxReactors == 2          \* reactors the health view is given

\* ------------------------------------------------------- program constants
DrainTries == 120         \* pool.go:132  if tries > 120
newLine == 10             \* reactorlog.go:13  newLine[0]
defaultHealthySeconds == 86400
ok == 200                 \* ok(w): http.StatusOK
ko == 503                 \* ko(w): http.StatusServiceUnavailable

defaultHealthySecondsText == <<"8", "6", "4", "0", "0">>   \* fmt.Sprintf("%d", ...)
Bytes == {newLine, 97}
Pids == {7}
Commands == {<<99>>}
Errors == {"", "exit status 1"}
ZeroTime == 0
Times == {ZeroTime, 13600, 99990}
Nows == {100000}
SecondsParams == {<<>>, <<"x">>, <<"1", "0">>, <<"1", "1">>, <<"0">>, <<"-", "1">>}

Reactors == {"r1", "r2"}
Handles == {"h1", "h2"}
Updaters == {"u1", "u2"}
Exiters == {"e1", "e2"}
ConcValues == 1..MaxConcurrent

\* A received message: its receipt handle and the reactors whose
\* MatchConditions accept its body (the predicate is a black box).
Messages == [rh : Handles, acc : SUBSET Reactors]
NoMsg == [rh |-> "none", acc |-> {}]

VARIABLES
    \* ---- sqsListen
    broadcastCh,      \* sync.Map  reactor -> Concurrent
    semLimit,         \* maxQueuedMessages: current concurrency
    semRunning,       \* maxQueuedMessages: permits held
    pendings,         \* map[string]int   (a function on the handles present)
    messError,        \* map[string]bool  (the set of keys)
    exiting,          \* uint32
    exited,           \* bool
    \* ---- listen goroutine
    lpc,              \* position of listen()
    batch,            \* resp.Messages still to deliver
    cur,              \* the message deliver() is working on
    rangeSnap,        \* keys broadcastCh.Range is bound to visit
    visited,          \* keys the Range callback has been called for
    curR,             \* reactor whose callback waits in Access()
    atLeastOneValid,
    tries,
    lenSync,          \* len(pendings) at listen's last synchronisation
    \* ---- other goroutines
    hand,             \* hand-off goroutines blocked in the send: [r][h] -> count
    releasing,        \* hand-off goroutines between the send and Release()
    ch,               \* reactor inbox channels: r -> Seq(handle)
    closed,           \* reactors whose channel is closed
    work,             \* executions running in the workers: [r][h] -> count
    ups,              \* AddOrUpdate callers: u -> [pc, total]
    epc,              \* Exit callers: e -> pc
    \* ---- history
    received,         \* messages handed out by ReceiveMessage so far
    nUpdates,         \* AddOrUpdate calls so far
    deleted,          \* p.delete calls issued by Done: h -> count
    invalidDeleted,   \* p.delete calls issued by deliver: h -> count
    dstat,            \* the current deliver() call: addPending calls, permits
                      \* taken, and whether its first addPending found the
                      \* handle already pending
    \* ---- ReactorLog
    rl,               \* the pooled ReactorLog object (its fields)
    logStream,        \* records sent to the log stream by this execution
    rlx,              \* the execution using the log: phase, calls made
    \* ---- HTTPServer
    reactors,         \* s.reactors: liveness timestamps of each reactor
    resp              \* the handler's answer for the reactors now set

sqsVars == <<broadcastCh, semLimit, semRunning, pendings, messError, exiting,
             exited, lpc, batch, cur, rangeSnap, visited, curR,
             atLeastOneValid, tries, lenSync, hand, releasing, ch, closed,
             work, ups, epc, received, nUpdates, deleted, invalidDeleted,
             dstat>>

logVars == <<rl, logStream, rlx>>

healthVars == <<reactors, resp>>

vars == <<sqsVars, logVars, healthVars>>

\* ------------------------------------------------------------- helpers
Put(f, k, v) == [x \in (DOMAIN f) \cup {k} |-> IF x = k THEN v ELSE f[x]]
Del(f, k) == [x \in (DOMAIN f) \ {k} |-> f[x]]
EmptyMap == [x \in {} |-> 0]
Count(f, k) == IF k \in DOMAIN f THEN f[k] ELSE 0

RECURSIVE SumOver(_, _)
SumOver(f, S) ==
    IF S = {} THEN 0
    ELSE LET k == CHOOSE x \in S : TRUE IN f[k] + SumOver(f, S \ {k})

HandoffCount ==
    SumOver([p \in Reactors \X Handles |-> hand[p[1]][p[2]]], Reactors \X Handles)

WorkCount(r) == SumOver([h \in Handles |-> work[r][h]], Handles)

ZeroDstat == [adds |-> 0, permits |-> 0, dup |-> FALSE]

\* ------------------------------------------------------------ semaphore
\* dynsemaphore.DynSemaphore (section 4.B): Access blocks while the permits
\* held have reached the limit; SetConcurrency revokes nothing.
AccessOK == semRunning < semLimit

\* ------------------------------------------------------------ ReactorLog
\* &ReactorLog{w: strings.Builder{}}: every field has its zero value.
FreshLog ==
    [Pid |-> 0, Line |-> 0, Output |-> <<>>, Status |-> "", Error |-> "",
     w |-> <<>>, buff |-> <<>>, initialized |-> FALSE]

NoResp == [code |-> 0, seconds |-> <<>>, now |-> 0, reactors |-> <<>>]

\* ------------------------------------------------------------------ Init
InitSQS ==
    /\ \E c \in ConcValues :
          /\ broadcastCh = [r \in {"r1"} |-> c]
          /\ semLimit = c
    /\ semRunning = 0
    /\ pendings = EmptyMap
    /\ messError = {}
    /\ exiting = 0
    /\ exited = FALSE
    /\ lpc = "loop"
    /\ batch = <<>>
    /\ cur = NoMsg
    /\ rangeSnap = {}
    /\ visited = {}
    /\ curR = "none"
    /\ atLeastOneValid = FALSE
    /\ tries = 0
    /\ lenSync = 0
    /\ hand = [r \in Reactors |-> [h \in Handles |-> 0]]
    /\ releasing = 0
    /\ ch = [r \in Reactors |-> <<>>]
    /\ closed = {}
    /\ work = [r \in Reactors |-> [h \in Handles |-> 0]]
    /\ ups = [u \in Updaters |-> [pc |-> "idle", total |-> 0]]
    /\ epc = [e \in Exiters |-> "idle"]
    /\ received = 0
    /\ nUpdates = 0
    /\ deleted = [h \in Handles |-> 0]
    /\ invalidDeleted = [h \in Handles |-> 0]
    /\ dstat = ZeroDstat

InitLog ==
    /\ rl = FreshLog
    /\ logStream = <<>>
    /\ rlx = [phase |-> "pooled", started |-> FALSE, written |-> <<>>,
              beforeStart |-> <<>>, writes |-> 0, execs |-> 0]

InitHealth ==
    /\ reactors = <<>>
    /\ resp = NoResp

Init == InitSQS /\ InitLog /\ InitHealth

\* The states Done is called in: any contents of pendings and messError, and
\* for every reactor and handle one execution about to report Done.
PendingMaps == UNION {[S -> 1..MaxPending] : S \in SUBSET Handles}

InitDone ==
    /\ \E c \in ConcValues :
          /\ broadcastCh = [r \in Reactors |-> c]
          /\ semLimit = c * Cardinality(Reactors)
    /\ semRunning = 0
    /\ pendings \in PendingMaps
    /\ messError \in SUBSET Handles
    /\ exiting = 0
    /\ exited = FALSE
    /\ lpc = "loop"
    /\ batch = <<>>
    /\ cur = NoMsg
    /\ rangeSnap = {}
    /\ visited = {}
    /\ curR = "none"
    /\ atLeastOneValid = FALSE
    /\ tries = 0
    /\ lenSync = Cardinality(DOMAIN pendings)
    /\ hand = [r \in Reactors |-> [h \in Handles |-> 0]]
    /\ releasing = 0
    /\ ch = [r \in Reactors |-> <<>>]
    /\ closed = {}
    /\ work = [r \in Reactors |-> [h \in Handles |-> 1]]
    /\ ups = [u \in Updaters |-> [pc |-> "idle", total |-> 0]]
    /\ epc = [e \in Exiters |-> "idle"]
    /\ received = 0
    /\ nUpdates = 0
    /\ deleted = [h \in Handles |-> 0]
    /\ invalidDeleted = [h \in Handles |-> 0]
    /\ dstat = ZeroDstat
    /\ InitLog
    /\ InitHealth

\* ------------------------------------------------- pending bookkeeping
\* (mutant) addPending that stores 1 whether or not the handle is present.
addPending_NoIncrement(h) ==
    pendings' = Put(pendings, h, 1)

\* addPending: one more reference on the handle, 1 when it is not present.
addPending(h) ==
    pendings' = Put(pendings, h, IF h \in DOMAIN pendings THEN pendings[h] + 1 ELSE 1)

\* (mutant) Done that records the failure before it looks the handle up.
Done_RecordFirst(h, statusOk) ==
    LET err == IF statusOk THEN messError ELSE messError \cup {h}
    IN /\ messError' = err
       /\ IF h \notin DOMAIN pendings
          THEN UNCHANGED <<pendings, deleted>>
          ELSE LET v == pendings[h] - 1
               IN IF v <= 0
                  THEN /\ pendings' = Del(pendings, h)
                       /\ deleted' = IF h \notin err
                                     THEN [deleted EXCEPT ![h] = @ + 1]
                                     ELSE deleted
                  ELSE /\ pendings' = Put(pendings, h, v)
                       /\ UNCHANGED deleted

\* Done: ignored for a handle that is not pending; otherwise the count drops,
\* a failure is recorded, and on the last reference the handle leaves
\* pendings and is deleted from the queue unless an error is recorded for it.
Done(h, statusOk) ==
    IF h \notin DOMAIN pendings
    THEN UNCHANGED <<pendings, messError, deleted>>
    ELSE LET v == pendings[h] - 1
             err == IF statusOk THEN messError ELSE messError \cup {h}
         IN /\ messError' = err
            /\ IF v <= 0
               THEN /\ pendings' = Del(pendings, h)
                    /\ deleted' = IF h \notin err
                                  THEN [deleted EXCEPT ![h] = @ + 1]
                                  ELSE deleted
               ELSE /\ pendings' = Put(pendings, h, v)
                    /\ UNCHANGED deleted

\* ------------------------------------------------------ listen goroutine
listenVars == <<lpc, batch, cur, rangeSnap, visited, curR, atLeastOneValid,
                tries, lenSync, received, invalidDeleted, dstat>>

\* Top of the loop: the exiting flag is read.
ListenCheck ==
    /\ UNCHANGED <<logVars, healthVars>>
    /\ lpc = "loop"
    /\ IF exiting > 0
       THEN lpc' = "drain" /\ tries' = 0
       ELSE lpc' = "receive" /\ UNCHANGED tries
    /\ UNCHANGED <<broadcastCh, semLimit, semRunning, pendings, messError,
                   exiting, exited, batch, cur, rangeSnap, visited, curR,
                   atLeastOneValid, lenSync, hand, releasing, ch, closed,
                   work, ups, epc, received, nUpdates, deleted,
                   invalidDeleted, dstat>>

BatchesOf(n) ==
    UNION {[1..k -> Messages] : k \in 0..n}

\* ReceiveMessage returns up to MaxNumberOfMessages messages.
Receive(max) ==
    /\ UNCHANGED <<logVars, healthVars>>
    /\ lpc = "receive"
    /\ \E msgs \in BatchesOf(MaxBatch) :
          /\ received + Len(msgs) <= max
          /\ batch' = msgs
          /\ received' = received + Len(msgs)
    /\ lpc' = "dispatch"
    /\ UNCHANGED <<broadcastCh, semLimit, semRunning, pendings, messError,
                   exiting, exited, cur, rangeSnap, visited, curR,
                   atLeastOneValid, tries, lenSync, hand, releasing, ch,
                   closed, work, ups, epc, nUpdates, deleted,
                   invalidDeleted, dstat>>

\* ReceiveMessage fails: log, sleep 15 s, continue.
ReceiveError ==
    /\ UNCHANGED <<logVars, healthVars>>
    /\ lpc = "receive"
    /\ lpc' = "loop"
    /\ UNCHANGED <<broadcastCh, semLimit, semRunning, pendings, messError,
                   exiting, exited, batch, cur, rangeSnap, visited, curR,
                   atLeastOneValid, tries, lenSync, hand, releasing, ch,
                   closed, work, ups, epc, received, nUpdates, deleted,
                   invalidDeleted, dstat>>

\* for _, msg := range resp.Messages { p.deliver(msg) }: deliver starts on the
\* next message, or the loop goes round.
Dispatch ==
    /\ UNCHANGED <<logVars, healthVars>>
    /\ lpc = "dispatch"
    /\ IF batch = <<>>
       THEN /\ lpc' = "loop"
            /\ UNCHANGED <<batch, cur, rangeSnap, visited, atLeastOneValid, dstat>>
       ELSE /\ lpc' = "range"
            /\ cur' = Head(batch)
            /\ batch' = Tail(batch)
            /\ rangeSnap' = DOMAIN broadcastCh
            /\ visited' = {}
            /\ atLeastOneValid' = FALSE
            /\ dstat' = ZeroDstat
    /\ UNCHANGED <<broadcastCh, semLimit, semRunning, pendings, messError,
                   exiting, exited, curR, tries, lenSync, hand, releasing,
                   ch, closed, work, ups, epc, received, nUpdates, deleted,
                   invalidDeleted>>

\* One call of the Range callback: MatchConditions, and for an accepted
\* message addPending; the callback then waits in Access().
RangeVisit(r) ==
    /\ UNCHANGED <<logVars, healthVars>>
    /\ lpc = "range"
    /\ r \in (rangeSnap \cup DOMAIN broadcastCh) \ visited
    /\ visited' = visited \cup {r}
    /\ IF r \notin cur.acc
       THEN UNCHANGED <<pendings, lenSync, curR, atLeastOneValid, lpc, dstat>>
       ELSE /\ atLeastOneValid' = TRUE
            /\ addPending(cur.rh)
            /\ lenSync' = Cardinality(DOMAIN pendings')
            /\ dstat' = [dstat EXCEPT !.adds = @ + 1,
                                      !.dup = IF dstat.adds = 0
                                              THEN cur.rh \in DOMAIN pendings
                                              ELSE @]
            /\ curR' = r
            /\ lpc' = "access"
    /\ UNCHANGED <<broadcastCh, semLimit, semRunning, messError, exiting,
                   exited, batch, cur, rangeSnap, tries, hand, releasing, ch,
                   closed, work, ups, epc, received, nUpdates, deleted,
                   invalidDeleted>>

\* (mutant) the hand-off goroutine is started without waiting for a permit.
DeliverAccess_NoWait ==
    /\ UNCHANGED <<logVars, healthVars>>
    /\ lpc = "access"
    /\ semRunning' = semRunning + 1
    /\ hand' = [hand EXCEPT ![curR][cur.rh] = @ + 1]
    /\ dstat' = [dstat EXCEPT !.permits = @ + 1]
    /\ curR' = "none"
    /\ lpc' = "range"
    /\ UNCHANGED <<broadcastCh, semLimit, pendings, messError, exiting, exited,
                   batch, cur, rangeSnap, visited, atLeastOneValid, tries,
                   lenSync, releasing, ch, closed, work, ups, epc, received,
                   nUpdates, deleted, invalidDeleted>>

\* Access() returns and the hand-off goroutine is started.
DeliverAccess ==
    /\ UNCHANGED <<logVars, healthVars>>
    /\ lpc = "access"
    /\ AccessOK
    /\ semRunning' = semRunning + 1
    /\ hand' = [hand EXCEPT ![curR][cur.rh] = @ + 1]
    /\ dstat' = [dstat EXCEPT !.permits = @ + 1]
    /\ curR' = "none"
    /\ lpc' = "range"
    /\ UNCHANGED <<broadcastCh, semLimit, pendings, messError, exiting, exited,
                   batch, cur, rangeSnap, visited, atLeastOneValid, tries,
                   lenSync, releasing, ch, closed, work, ups, epc, received,
                   nUpdates, deleted, invalidDeleted>>

\* (mutant) deliver with the test of atLeastOneValid inverted.
DeliverEnd_Inverted ==
    /\ UNCHANGED <<logVars, healthVars>>
    /\ lpc = "range"
    /\ rangeSnap \subseteq visited
    /\ invalidDeleted' = IF atLeastOneValid
                         THEN [invalidDeleted EXCEPT ![cur.rh] = @ + 1]
                         ELSE invalidDeleted
    /\ lpc' = "dispatch"
    /\ cur' = NoMsg
    /\ rangeSnap' = {}
    /\ visited' = {}
    /\ atLeastOneValid' = FALSE
    /\ dstat' = ZeroDstat
    /\ UNCHANGED <<broadcastCh, semLimit, semRunning, pendings, messError,
                   exiting, exited, batch, curR, tries, lenSync, hand,
                   releasing, ch, closed, work, ups, epc, received, nUpdates,
                   deleted>>

\* Range is over: a message no reactor accepted is deleted at once.
DeliverEnd ==
    /\ UNCHANGED <<logVars, healthVars>>
    /\ lpc = "range"
    /\ rangeSnap \subseteq visited
    /\ invalidDeleted' = IF ~atLeastOneValid
                         THEN [invalidDeleted EXCEPT ![cur.rh] = @ + 1]
                         ELSE invalidDeleted
    /\ lpc' = "dispatch"
    /\ cur' = NoMsg
    /\ rangeSnap' = {}
    /\ visited' = {}
    /\ atLeastOneValid' = FALSE
    /\ dstat' = ZeroDstat
    /\ UNCHANGED <<broadcastCh, semLimit, semRunning, pendings, messError,
                   exiting, exited, batch, curR, tries, lenSync, hand,
                   releasing, ch, closed, work, ups, epc, received, nUpdates,
                   deleted>>

\* len(p.pendings) is read without the mutex: the read may return the size
\* the map has now or any size it had since listen last synchronised.
LenObservable ==
    LET now == Cardinality(DOMAIN pendings)
    IN now .. (IF lenSync > now THEN lenSync ELSE now)

\* for len(p.pendings) > 0
DrainCheck ==
    /\ UNCHANGED <<logVars, healthVars>>
    /\ lpc = "drain"
    /\ \E n \in LenObservable :
          lpc' = IF n > 0 THEN "sleep" ELSE "senddone"
    /\ UNCHANGED <<broadcastCh, semLimit, semRunning, pendings, messError,
                   exiting, exited, batch, cur, rangeSnap, visited, curR,
                   atLeastOneValid, tries, lenSync, hand, releasing, ch,
                   closed, work, ups, epc, received, nUpdates, deleted,
                   invalidDeleted, dstat>>

\* (mutant) the drain poll gives up after a tenth of the tries.
DrainSleep_ShortCap ==
    /\ UNCHANGED <<logVars, healthVars>>
    /\ lpc = "sleep"
    /\ tries' = tries + 1
    /\ lpc' = IF tries' * 10 > DrainTries THEN "senddone" ELSE "drain"
    /\ UNCHANGED <<broadcastCh, semLimit, semRunning, pendings, messError,
                   exiting, exited, batch, cur, rangeSnap, visited, curR,
                   atLeastOneValid, lenSync, hand, releasing, ch, closed,
                   work, ups, epc, received, nUpdates, deleted,
                   invalidDeleted, dstat>>

\* time.Sleep(time.Second); tries++; if tries > 120 { break }
DrainSleep ==
    /\ UNCHANGED <<logVars, healthVars>>
    /\ lpc = "sleep"
    /\ tries' = tries + 1
    /\ lpc' = IF tries' > DrainTries THEN "senddone" ELSE "drain"
    /\ UNCHANGED <<broadcastCh, semLimit, semRunning, pendings, messError,
                   exiting, exited, batch, cur, rangeSnap, visited, curR,
                   atLeastOneValid, lenSync, hand, releasing, ch, closed,
                   work, ups, epc, received, nUpdates, deleted,
                   invalidDeleted, dstat>>

\* ------------------------------------------------------------ Stop / Exit
\* Stop: the flag is raised once.  (exiting is only ever compared with 0.)
Stop ==
    /\ UNCHANGED <<logVars, healthVars>>
    /\ exiting' = IF exiting > 0 THEN exiting ELSE exiting + 1
    /\ UNCHANGED <<broadcastCh, semLimit, semRunning, pendings, messError,
                   exited, hand, releasing, ch, closed, work, ups, epc,
                   nUpdates, deleted>>
    /\ UNCHANGED listenVars

\* Exit is called: the caller arrives at p.exitedMu.Lock().
ExitCall(e) ==
    /\ UNCHANGED <<logVars, healthVars>>
    /\ epc[e] = "idle"
    /\ epc' = [epc EXCEPT ![e] = "lock"]
    /\ UNCHANGED <<broadcastCh, semLimit, semRunning, pendings, messError,
                   exiting, exited, hand, releasing, ch, closed, work, ups,
                   nUpdates, deleted>>
    /\ UNCHANGED listenVars

\* (mutant) Exit that waits on done whether or not the dispatcher has exited.
ExitEnter_NoExitedCheck(e) ==
    /\ UNCHANGED <<logVars, healthVars>>
    /\ epc[e] = "lock"
    /\ \A o \in Exiters : epc[o] # "wait"
    /\ epc' = [epc EXCEPT ![e] = "wait"]
    /\ exiting' = IF exiting > 0 THEN exiting ELSE exiting + 1
    /\ UNCHANGED <<broadcastCh, semLimit, semRunning, pendings, messError,
                   exited, hand, releasing, ch, closed, work, ups, nUpdates,
                   deleted>>
    /\ UNCHANGED listenVars

\* Exit takes exitedMu (held by a caller that waits on done until it
\* returns), returns if exited, else calls Stop and waits on done.
ExitEnter(e) ==
    /\ UNCHANGED <<logVars, healthVars>>
    /\ epc[e] = "lock"
    /\ \A o \in Exiters : epc[o] # "wait"
    /\ IF exited
       THEN epc' = [epc EXCEPT ![e] = "returned"] /\ UNCHANGED exiting
       ELSE /\ epc' = [epc EXCEPT ![e] = "wait"]
            /\ exiting' = IF exiting > 0 THEN exiting ELSE exiting + 1
    /\ UNCHANGED <<broadcastCh, semLimit, semRunning, pendings, messError,
                   exited, hand, releasing, ch, closed, work, ups, nUpdates,
                   deleted>>
    /\ UNCHANGED listenVars

\* listen's deferred p.done <- true meets Exit's p.exited = <-p.done.
SignalDone(e) ==
    /\ UNCHANGED <<logVars, healthVars>>
    /\ lpc = "senddone"
    /\ epc[e] = "wait"
    /\ lpc' = "exited"
    /\ exited' = TRUE
    /\ epc' = [epc EXCEPT ![e] = "returned"]
    /\ UNCHANGED <<broadcastCh, semLimit, semRunning, pendings, messError,
                   exiting, batch, cur, rangeSnap, visited, curR,
                   atLeastOneValid, tries, lenSync, hand, releasing, ch,
                   closed, work, ups, received, nUpdates, deleted,
                   invalidDeleted, dstat>>

\* ---------------------------------------------------- hand-off goroutines
\* k.(*reactor.Reactor).Ch <- m
HandoffSend(r, h) ==
    /\ UNCHANGED <<logVars, healthVars>>
    /\ hand[r][h] > 0
    /\ r \notin closed
    /\ Len(ch[r]) < ChanCap
    /\ ch' = [ch EXCEPT ![r] = Append(@, h)]
    /\ hand' = [hand EXCEPT ![r][h] = @ - 1]
    /\ releasing' = releasing + 1
    /\ UNCHANGED <<broadcastCh, semLimit, semRunning, pendings, messError,
                   exiting, exited, closed, work, ups, epc, nUpdates, deleted>>
    /\ UNCHANGED listenVars

\* The send panics on a closed channel; the deferred recover() returns.
HandoffPanic(r, h) ==
    /\ UNCHANGED <<logVars, healthVars>>
    /\ hand[r][h] > 0
    /\ r \in closed
    /\ hand' = [hand EXCEPT ![r][h] = @ - 1]
    /\ UNCHANGED <<broadcastCh, semLimit, semRunning, pendings, messError,
                   exiting, exited, releasing, ch, closed, work, ups, epc,
                   nUpdates, deleted>>
    /\ UNCHANGED listenVars

\* p.maxQueuedMessages.Release()
HandoffRelease ==
    /\ UNCHANGED <<logVars, healthVars>>
    /\ releasing > 0
    /\ releasing' = releasing - 1
    /\ semRunning' = semRunning - 1
    /\ UNCHANGED <<broadcastCh, semLimit, pendings, messError, exiting, exited,
                   hand, ch, closed, work, ups, epc, nUpdates, deleted>>
    /\ UNCHANGED listenVars

\* ----------------------------------------------------------------- workers
\* A worker takes a message from its inbox (at most Concurrent executions).
WorkerRecv(r) ==
    /\ UNCHANGED <<logVars, healthVars>>
    /\ ch[r] # <<>>
    /\ r \in DOMAIN broadcastCh
    /\ WorkCount(r) < broadcastCh[r]
    /\ work' = [work EXCEPT ![r][Head(ch[r])] = @ + 1]
    /\ ch' = [ch EXCEPT ![r] = Tail(@)]
    /\ UNCHANGED <<broadcastCh, semLimit, semRunning, pendings, messError,
                   exiting, exited, hand, releasing, closed, ups, epc,
                   nUpdates, deleted>>
    /\ UNCHANGED listenVars

\* The execution ends and the worker reports Done(msg, ok).
WorkerDone(r, h, statusOk) ==
    /\ UNCHANGED <<logVars, healthVars>>
    /\ work[r][h] > 0
    /\ work' = [work EXCEPT ![r][h] = @ - 1]
    /\ Done(h, statusOk)
    /\ UNCHANGED <<broadcastCh, semLimit, semRunning, exiting, exited, hand,
                   releasing, ch, closed, ups, epc, nUpdates>>
    /\ UNCHANGED listenVars

\* Shutdown closes each reactor's inbox once the dispatcher has exited.
CloseCh(r) ==
    /\ UNCHANGED <<logVars, healthVars>>
    /\ lpc = "exited"
    /\ r \notin closed
    /\ closed' = closed \cup {r}
    /\ UNCHANGED <<broadcastCh, semLimit, semRunning, pendings, messError,
                   exiting, exited, hand, releasing, ch, work, ups, epc,
                   nUpdates, deleted>>
    /\ UNCHANGED listenVars

\* ------------------------------------------------------------- AddOrUpdate
\* p.broadcastCh.Store(r, r.Concurrent)
UpStore(u, r, c, max) ==
    /\ UNCHANGED <<logVars, healthVars>>
    /\ ups[u].pc = "idle"
    /\ nUpdates < max
    /\ nUpdates' = nUpdates + 1
    /\ broadcastCh' = Put(broadcastCh, r, c)
    /\ ups' = [ups EXCEPT ![u].pc = "stored"]
    /\ UNCHANGED <<semLimit, semRunning, pendings, messError, exiting, exited,
                   hand, releasing, ch, closed, work, epc, deleted>>
    /\ UNCHANGED listenVars

\* updateConcurrency: total is summed over the map ...
UpSum(u) ==
    /\ UNCHANGED <<logVars, healthVars>>
    /\ ups[u].pc = "stored"
    /\ ups' = [ups EXCEPT ![u] = [pc |-> "summed",
                                  total |-> SumOver(broadcastCh, DOMAIN broadcastCh)]]
    /\ UNCHANGED <<broadcastCh, semLimit, semRunning, pendings, messError,
                   exiting, exited, hand, releasing, ch, closed, work, epc,
                   nUpdates, deleted>>
    /\ UNCHANGED listenVars

\* ... and p.maxQueuedMessages.SetConcurrency(total)
UpSet(u) ==
    /\ UNCHANGED <<logVars, healthVars>>
    /\ ups[u].pc = "summed"
    /\ semLimit' = ups[u].total
    /\ ups' = [ups EXCEPT ![u] = [pc |-> "idle", total |-> 0]]
    /\ UNCHANGED <<broadcastCh, semRunning, pendings, messError, exiting,
                   exited, hand, releasing, ch, closed, work, epc, nUpdates,
                   deleted>>
    /\ UNCHANGED listenVars

\* ================================================================
\* ReactorLog (lib/reactorlog.go)
\* ================================================================
\* A log together with the stream it sends to.
LogState(l, ls) == [rl |-> l, ls |-> ls]

\* printJSON: Output takes the accumulator, the record is marshalled and
\* sent, Output is cleared and Line incremented.
printJSON(x) ==
    LET rec == [Pid |-> x.rl.Pid, Line |-> x.rl.Line, Output |-> x.rl.w,
                Status |-> x.rl.Status, Error |-> x.rl.Error]
    IN LogState([x.rl EXCEPT !.w = <<>>, !.Output = <<>>, !.Line = @ + 1],
                Append(x.ls, rec))

\* handleWriteBytes: a record per newline, other bytes are accumulated.
RECURSIVE handleWriteBytes(_, _)
handleWriteBytes(x, b) ==
    IF b = <<>> THEN x
    ELSE LET l == Head(b)
             y == IF l = newLine
                  THEN printJSON(x)
                  ELSE LogState([x.rl EXCEPT !.w = Append(@, l)], x.ls)
         IN handleWriteBytes(y, Tail(b))

\* reset: the fields reset() assigns; initialized is not among them.
reset(l) ==
    [l EXCEPT !.Pid = 0, !.Line = 0, !.Output = <<>>, !.Status = "",
              !.Error = "", !.w = <<>>, !.buff = <<>>]

WriteInputs == UNION {[1..k -> Bytes] : k \in 1..MaxWriteLen}

\* NewReactorLog: the pool hands out the released log or a new one.
NewReactorLog ==
    /\ rlx.phase = "pooled"
    /\ rlx.execs < MaxExecs
    /\ \E obj \in {rl, FreshLog} :
          rl' = [obj EXCEPT !.Status = ""]
    /\ logStream' = <<>>
    /\ rlx' = [phase |-> "active", started |-> FALSE, written |-> <<>>,
               beforeStart |-> <<>>, writes |-> 0, execs |-> rlx.execs + 1]
    /\ UNCHANGED <<sqsVars, healthVars>>

\* (mutant) Write that emits an unterminated fragment at the end of the call.
Write_FlushFragment(b) ==
    /\ rlx.phase = "active"
    /\ rlx.writes < MaxWrites
    /\ IF ~rl.initialized
       THEN /\ rl' = [rl EXCEPT !.buff = @ \o b]
            /\ UNCHANGED logStream
       ELSE LET x0 == LogState(rl, logStream)
                x1 == IF Len(rl.buff) > 0
                      THEN LET y == handleWriteBytes(x0, rl.buff)
                           IN LogState([y.rl EXCEPT !.buff = <<>>], y.ls)
                      ELSE x0
                x2 == handleWriteBytes(x1, b)
                x3 == IF x2.rl.w # <<>> THEN printJSON(x2) ELSE x2
            IN /\ rl' = x3.rl
               /\ logStream' = x3.ls
    /\ rlx' = [rlx EXCEPT !.written = @ \o b, !.writes = @ + 1,
                          !.beforeStart = IF rlx.started THEN @ ELSE @ \o b]
    /\ UNCHANGED <<sqsVars, healthVars>>

\* Write: staged before Start; afterwards staged bytes first, then b.
Write(b) ==
    /\ rlx.phase = "active"
    /\ rlx.writes < MaxWrites
    /\ IF ~rl.initialized
       THEN /\ rl' = [rl EXCEPT !.buff = @ \o b]
            /\ UNCHANGED logStream
       ELSE LET x0 == LogState(rl, logStream)
                x1 == IF Len(rl.buff) > 0
                      THEN LET y == handleWriteBytes(x0, rl.buff)
                           IN LogState([y.rl EXCEPT !.buff = <<>>], y.ls)
                      ELSE x0
                x2 == handleWriteBytes(x1, b)
            IN /\ rl' = x2.rl
               /\ logStream' = x2.ls
    /\ rlx' = [rlx EXCEPT !.written = @ \o b, !.writes = @ + 1,
                          !.beforeStart = IF rlx.started THEN @ ELSE @ \o b]
    /\ UNCHANGED <<sqsVars, healthVars>>

\* Start: the CMD record carries the command line, then the status is RUN.
Start(pid, s) ==
    /\ rlx.phase = "active"
    /\ ~rlx.started
    /\ LET l == [rl EXCEPT !.Pid = pid, !.initialized = TRUE,
                           !.Status = "CMD", !.w = @ \o s]
           x == printJSON(LogState(l, logStream))
       IN /\ rl' = [x.rl EXCEPT !.Status = "RUN"]
          /\ logStream' = x.ls
    /\ rlx' = [rlx EXCEPT !.started = TRUE]
    /\ UNCHANGED <<sqsVars, healthVars>>

\* (mutant) Done without the flush of the staged bytes.
LogDone_NoFlush(err) ==
    /\ rlx.phase = "active"
    /\ LET l == [rl EXCEPT !.Status = "END",
                           !.Error = IF err # "" THEN err ELSE @]
           x2 == printJSON(LogState(l, logStream))
       IN /\ rl' = reset(x2.rl)
          /\ logStream' = x2.ls
    /\ rlx' = [rlx EXCEPT !.phase = "pooled"]
    /\ UNCHANGED <<sqsVars, healthVars>>

\* Done: a log never started flushes its staged bytes; the END record is
\* emitted and the log is reset and released to the pool.
LogDone(err) ==
    /\ rlx.phase = "active"
    /\ LET x0 == LogState(rl, logStream)
           x1 == IF ~rl.initialized THEN handleWriteBytes(x0, rl.buff) ELSE x0
           l == [x1.rl EXCEPT !.Status = "END",
                              !.Error = IF err # "" THEN err ELSE @]
           x2 == printJSON(LogState(l, x1.ls))
       IN /\ rl' = reset(x2.rl)
          /\ logStream' = x2.ls
    /\ rlx' = [rlx EXCEPT !.phase = "pooled"]
    /\ UNCHANGED <<sqsVars, healthVars>>

NextLog ==
    \/ NewReactorLog
    \/ \E b \in WriteInputs : Write(b)
    \/ \E pid \in Pids, s \in Commands : Start(pid, s)
    \/ \E err \in Errors : LogDone(err)

\* ================================================================
\* HTTPServer.health
\* ================================================================
Digits == <<"0", "1", "2", "3", "4", "5", "6", "7", "8", "9">>

IsDigit(c) == \E i \in 1..10 : Digits[i] = c

DigitVal(c) == (CHOOSE i \in 1..10 : Digits[i] = c) - 1

RECURSIVE DigitsVal(_, _)
DigitsVal(acc, cs) ==
    IF cs = <<>> THEN acc ELSE DigitsVal(acc * 10 + DigitVal(Head(cs)), Tail(cs))

\* strconv.Atoi: an optional sign and decimal digits, an error otherwise.
Atoi(cs) ==
    LET signed == cs # <<>> /\ Head(cs) \in {"-", "+"}
        ds == IF signed THEN Tail(cs) ELSE cs
    IN IF ds = <<>> \/ \E i \in 1..Len(ds) : ~IsDigit(ds[i])
       THEN [v |-> 0, err |-> TRUE]
       ELSE [v |-> IF signed /\ Head(cs) = "-" THEN 0 - DigitsVal(0, ds)
                   ELSE DigitsVal(0, ds),
             err |-> FALSE]

\* The threshold the handler uses for the :seconds parameter.
parsedSeconds(seconds) ==
    LET secs == IF seconds = <<>> THEN defaultHealthySecondsText ELSE seconds
        p == Atoi(secs)
    IN IF p.err /\ secs # <<>> THEN defaultHealthySeconds ELSE p.v

IsZero(t) == t = ZeroTime

\* time.Since(t) < d.  Since saturates on the zero time at the largest
\* Duration, which no threshold exceeds.
SinceLess(now, t, d) == ~IsZero(t) /\ now - t < d

RECURSIVE healthLoop(_, _, _, _)
healthLoop(rs, now, secs, delayed) ==
    IF rs = <<>> THEN (IF delayed THEN ko ELSE ok)
    ELSE LET r == Head(rs)
         IN IF IsZero(r.last) /\ IsZero(r.errt)
            THEN healthLoop(Tail(rs), now, secs, delayed)
            ELSE IF SinceLess(now, r.last, secs)
                 THEN ok
                 ELSE healthLoop(Tail(rs), now, secs, TRUE)

\* (mutant) health without the answer for an empty reactor list.
health_NoEmptyCheck(rs, seconds, now) ==
    healthLoop(rs, now, parsedSeconds(seconds), FALSE)

health(rs, seconds, now) ==
    IF Len(rs) = 0 THEN ko
    ELSE healthLoop(rs, now, parsedSeconds(seconds), FALSE)

ReactorStates == [last : Times, errt : Times]

ReactorLists == UNION {[1..k -> ReactorStates] : k \in 0..MaxReactors}

SetReactors(rs) ==
    /\ reactors' = rs
    /\ resp' = NoResp
    /\ UNCHANGED <<sqsVars, logVars>>

Health(seconds, now) ==
    /\ resp' = [code |-> health(reactors, seconds, now), seconds |-> seconds,
                now |-> now, reactors |-> reactors]
    /\ UNCHANGED reactors
    /\ UNCHANGED <<sqsVars, logVars>>

NextHealth ==
    \/ \E rs \in ReactorLists : SetReactors(rs)
    \/ \E seconds \in SecondsParams, now \in Nows : Health(seconds, now)

\* ================================================================
\* Properties of the dispatcher
\* ================================================================
\* Reactors the Range of the deliver in progress has still to call and that
\* accept its message.
AcceptorsAhead == {r \in rangeSnap \ visited : r \in cur.acc}

DoneDeletes(h) == deleted'[h] > deleted[h]

\* C1: Done issues the delete for a handle only when every reactor that
\* accepts the message has reported Done: never while a reactor that accepts
\* the message being delivered has still to be handed it.
C1_DeleteOnlyWhenAllDone ==
    [][\A h \in Handles :
          DoneDeletes(h) => ~(cur.rh = h /\ AcceptorsAhead # {})]_vars

\* C2: a handle that is absent from Pendings is also absent from Errored.
C2_ErroredWithinPendings ==
    \A h \in Handles : h \notin DOMAIN pendings => h \notin messError

\* C3: a deliver call whose message no registered reactor accepts deletes the
\* message exactly once, adds no pending reference, acquires no permit and
\* starts no hand-off.
C3_NoMatchDeletedOnce ==
    [][(lpc = "range" /\ lpc' = "dispatch" /\ cur.acc \cap DOMAIN broadcastCh = {})
          => /\ invalidDeleted' = [invalidDeleted EXCEPT ![cur.rh] = @ + 1]
             /\ dstat.adds = 0
             /\ dstat.permits = 0
             /\ UNCHANGED <<pendings, semRunning, hand, ch, deleted>>]_vars

C3_Witness ==
    \E h \in Handles :
        /\ invalidDeleted[h] = 1
        /\ lpc = "dispatch"
        /\ pendings = EmptyMap
        /\ semRunning = 0
        /\ "r2" \in DOMAIN broadcastCh

\* C4: when a message is delivered again while its handle is in Pendings, the
\* delete for the handle is issued only after the references of both
\* deliveries have all reported Done.
C4_DuplicateDeleteAfterAll ==
    [][\A h \in Handles :
          (DoneDeletes(h) /\ cur.rh = h /\ dstat.dup) => AcceptorsAhead = {}]_vars

\* C12: once every AddOrUpdate call has returned, the semaphore's limit is
\* the sum of Concurrent over the registered reactors.
C12_LimitIsSumOfConcurrent ==
    (\A u \in Updaters : ups[u].pc = "idle")
        => semLimit = SumOver(broadcastCh, DOMAIN broadcastCh)

\* C5 (as stated): the hand-offs in flight never exceed the current limit.
C5_InFlightWithinLimit == HandoffCount <= semLimit

\* C5 (amended): only a step that lowers the limit can leave more hand-offs
\* in flight than the limit, and a permit is granted only below the limit.
C5_OnlyLoweringExceeds ==
    [][/\ (HandoffCount <= semLimit /\ semLimit' >= semLimit)
             => HandoffCount' <= semLimit'
       /\ semRunning' > semRunning => semRunning' <= semLimit']_vars

C5_Witness ==
    /\ HandoffCount > semLimit
    /\ semRunning = HandoffCount
    /\ semLimit > 0

\* C9: once the loop has seen the exiting flag it receives no more, and it
\* leaves the drain poll, and signals done, only with Pendings empty or
\* after the poll has slept DrainTries times.
C9_DrainBeforeExit ==
    [][/\ lpc \in {"drain", "sleep", "senddone", "exited"}
             => /\ lpc' \in {"drain", "sleep", "senddone", "exited"}
                /\ received' = received
       /\ (lpc' \in {"senddone", "exited"} /\ lpc' # lpc)
             => (DOMAIN pendings' = {} \/ tries' >= DrainTries)]_vars

C9_Witness ==
    /\ lpc = "exited"
    /\ DOMAIN pendings # {}
    /\ tries > DrainTries

\* C10: a hand-off whose send hits a closed channel counts as a failed
\* completion: the handle is marked errored and its count drops by one.
C10_ClosedSendCountsAsFailure ==
    [][\A r \in closed, h \in Handles :
          hand'[r][h] < hand[r][h]
             => /\ h \in messError'
                /\ Count(pendings', h) = Count(pendings, h) - 1]_vars

\* C15: the permits held are those of the hand-off goroutines still running
\* (in the send, or between the send and Release): none is kept by a
\* hand-off that has ended.
C15_PermitsMatchHandoffs == semRunning = HandoffCount + releasing

\* A call of Exit that has been made and has not returned.
ExitPending(e) == epc[e] \in {"lock", "wait"}

\* Every call of Exit returns; done is signalled once, to one caller, and a
\* call that finds the dispatcher exited returns without touching it.
ExitTerminates ==
    /\ \A e \in Exiters : ExitPending(e) ~> (epc[e] = "returned")
    /\ [][lpc = "exited" => lpc' = "exited"]_vars
    /\ [](\A e \in Exiters : epc[e] = "wait" => lpc # "exited")
    /\ [][\A e \in Exiters :
             (epc[e] = "lock" /\ epc'[e] # "lock" /\ exited)
                => (epc'[e] = "returned" /\ UNCHANGED <<exiting, lpc, exited>>)]_vars

\* C16 (as stated): every call of Exit returns and done is signalled once;
\* a second call, later or concurrent, is never kept waiting.
C16_ExitNeverBlocks ==
    /\ ExitTerminates
    /\ [](\A e \in Exiters :
             epc[e] = "lock" => \A o \in Exiters : epc[o] # "wait")

\* C16 (amended): every call of Exit returns and done is signalled once; a
\* second call is kept waiting only at exitedMu, only while the first call
\* waits on done, and never waits on done itself.
C16_ExitReturnsOnce ==
    /\ ExitTerminates
    /\ [][\A e \in Exiters :
             (epc'[e] = "wait" /\ epc[e] # "wait")
                => (~exited /\ \A o \in Exiters : epc[o] # "wait")]_vars

C16_Witness ==
    /\ lpc = "exited"
    /\ exited
    /\ \A e \in Exiters : epc[e] = "returned"
    /\ received > 0

\* C17: Pendings is read under the dispatcher mutex by the drain loop too, so
\* the loop's test sees the map as it is when the test is made: it sleeps
\* exactly when a handle is pending.
C17_DrainReadsUnderMutex ==
    [][(lpc = "drain" /\ lpc' # "drain")
          => (lpc' = "sleep" <=> DOMAIN pendings # {})]_vars

\* References on h that a reactor has accepted and not yet reported Done: the
\* one deliver is acquiring a permit for, those of the hand-off goroutines,
\* those waiting in a reactor's channel and those being executed.
InChannel(r, h) == Cardinality({i \in 1..Len(ch[r]) : ch[r][i] = h})

Outstanding(h) ==
    (IF lpc = "access" /\ cur.rh = h THEN 1 ELSE 0)
    + SumOver([r \in Reactors |-> hand[r][h] + InChannel(r, h) + work[r][h]],
              Reactors)

\* C18: Pendings[rh] is the number of references on rh accepted and not yet
\* reported Done, and no entry of Pendings is below 1.
C18_PendingsCountReferences ==
    /\ \A h \in Handles : Count(pendings, h) = Outstanding(h)
    /\ \A h \in DOMAIN pendings : pendings[h] >= 1

C18_Witness ==
    \E h \in Handles :
        /\ h \in DOMAIN pendings
        /\ pendings[h] = 2
        /\ work["r1"][h] = 1
        /\ hand["r2"][h] = 1
        /\ deleted[h] = 1

\* deliver calls made so far, and queue deletes issued so far.
Deliveries == received - Len(batch)

Deletes == SumOver(deleted, Handles) + SumOver(invalidDeleted, Handles)

\* C19: each deliver call leads to at most one queue delete, so the deletes
\* issued never outnumber the deliver calls made.
C19_OneDeletePerDelivery == Deletes <= Deliveries

\* C20: a Done reported for a handle that is not in Pendings leaves Pendings
\* and Errored as they are, whatever its status, and issues no delete.
C20_DoneOnAbsentChangesNothing ==
    [][\A r \in Reactors, h \in Handles :
          (work'[r][h] < work[r][h] /\ h \notin DOMAIN pendings)
             => UNCHANGED <<pendings, messError, deleted>>]_vars

\* One Done has been reported, for h1, and found it absent: a Done that had
\* found h1 pending would have left it pending, deleted it or errored.
C20_Witness ==
    /\ work["r1"]["h1"] = 0
    /\ work["r1"]["h2"] = 1 /\ work["r2"]["h1"] = 1 /\ work["r2"]["h2"] = 1
    /\ "h1" \notin DOMAIN pendings
    /\ "h1" \notin messError
    /\ deleted["h1"] = 0
    /\ "h2" \in DOMAIN pendings

\* ================================================================
\* Properties of the reactor log
\* ================================================================
Finished == rlx.phase = "pooled" /\ rlx.execs > 0

NewLinesIn(b) == Cardinality({i \in 1..Len(b) : b[i] = newLine})

\* The bytes after the last newline of b (all of b when it has none).
AfterLastNewLine(b) ==
    LET nl == {i \in 1..Len(b) : b[i] = newLine}
        k == IF nl = {} THEN 0 ELSE CHOOSE i \in nl : \A j \in nl : j <= i
    IN SubSeq(b, k + 1, Len(b))

EndRecords == {i \in 1..Len(logStream) : logStream[i].Status = "END"}

\* C6: the records of an execution carry Line 0, 1, 2, ... and no empty
\* Status; after Done they are one CMD record if Start was called, then RUN
\* records, then one END record.
C6_RecordSequence ==
    /\ \A i \in 1..Len(logStream) :
          logStream[i].Line = i - 1 /\ logStream[i].Status # ""
    /\ Finished =>
          LET n == Len(logStream)
              first == IF rlx.started THEN 2 ELSE 1
          IN /\ n >= first
             /\ logStream[n].Status = "END"
             /\ rlx.started => logStream[1].Status = "CMD"
             /\ \A i \in first..(n - 1) : logStream[i].Status = "RUN"

\* C7 (as stated): without Start, Done emits one END record whose Output is
\* everything written.
C7_EndCarriesAllOutput ==
    (Finished /\ ~rlx.started) =>
        /\ EndRecords = {Len(logStream)}
        /\ logStream[Len(logStream)].Output = rlx.written

\* C7 (amended): without Start, Done emits one END record, the last one, whose
\* Output is what was written after the last newline; each newline-ended
\* line before it was emitted as a record of its own.
C7_EndCarriesTail ==
    (Finished /\ ~rlx.started) =>
        /\ EndRecords = {Len(logStream)}
        /\ logStream[Len(logStream)].Output = AfterLastNewLine(rlx.written)
        /\ Len(logStream) = NewLinesIn(rlx.written) + 1

C7_Witness ==
    /\ Finished
    /\ ~rlx.started
    /\ rlx.written = <<97, newLine, 97>>
    /\ Len(logStream) = 2

\* C11: a log released to the pool by Done has every field at its initial
\* value, so the next execution behaves as on a new log: in particular it
\* emits nothing before Start, its writes being staged.
C11_ResetRestoresInitial ==
    /\ rlx.phase = "pooled" => rl = FreshLog
    /\ (rlx.phase = "active" /\ ~rlx.started) => logStream = <<>>

\* The Output fields of the records, joined by newlines.
RECURSIVE JoinOutputs(_)
JoinOutputs(recs) ==
    IF recs = <<>> THEN <<>>
    ELSE IF Len(recs) = 1 THEN recs[1].Output
    ELSE recs[1].Output \o <<newLine>> \o JoinOutputs(Tail(recs))

IsOutputRecord(rec) == rec.Status # "CMD"

\* C13: after Done, the Output fields of the records other than CMD, joined
\* by newlines, are the bytes written, in order, whether they were written
\* before or after Start.
C13_NoOutputLost ==
    Finished => JoinOutputs(SelectSeq(logStream, IsOutputRecord)) = rlx.written

\* The segments of b between its newlines; the last one is what follows the
\* last newline.
RECURSIVE SplitLines(_, _)
SplitLines(b, acc) ==
    IF b = <<>> THEN <<acc>>
    ELSE IF Head(b) = newLine THEN <<acc>> \o SplitLines(Tail(b), <<>>)
    ELSE SplitLines(Tail(b), Append(acc, Head(b)))

\* C14: when every Write follows Start, the records after the CMD record are
\* a function of the concatenation of the bytes written alone: a RUN record
\* per newline whose Output is the bytes since the previous newline, then the
\* END record, whose Output is the unterminated fragment.
C14_RecordsFollowNewlines ==
    (Finished /\ rlx.started /\ rlx.beforeStart = <<>>) =>
        LET segs == SplitLines(rlx.written, <<>>)
            n == Len(segs)
        IN /\ Len(logStream) = n + 1
           /\ logStream[1].Status = "CMD"
           /\ \A i \in 1..n :
                 /\ logStream[i + 1].Output = segs[i]
                 /\ logStream[i + 1].Status = IF i = n THEN "END" ELSE "RUN"

C14_Witness ==
    /\ Finished
    /\ rlx.started
    /\ rlx.beforeStart = <<>>
    /\ rlx.writes = 2
    /\ rlx.written = <<97, newLine, 97>>
    /\ Len(logStream) = 3
    /\ logStream[3].Output = <<97>>

\* ================================================================
\* Properties of the health view
\* ================================================================
NoExecution(rs) ==
    \A i \in 1..Len(rs) : IsZero(rs[i].last) /\ IsZero(rs[i].errt)

SomeRecentSuccess(rs, now, secs) ==
    \E i \in 1..Len(rs) : SinceLess(now, rs[i].last, secs)

Healthy(a) ==
    \/ NoExecution(a.reactors)
    \/ SomeRecentSuccess(a.reactors, a.now, parsedSeconds(a.seconds))

\* C8 (as stated): for every set of reactors, the empty one included, the
\* answer is 200 iff no reactor has a recorded execution or some reactor's
\* last success is younger than the threshold, and 503 otherwise.
C8_HealthyIff ==
    resp # NoResp => resp.code = IF Healthy(resp) THEN ok ELSE ko

\* C8 (amended): the same for every non-empty set of reactors; with no
\* reactor registered the answer is 503.
C8_HealthyIffRegistered ==
    resp # NoResp =>
        resp.code = IF Len(resp.reactors) > 0 /\ Healthy(resp) THEN ok ELSE ko

C8_Witness ==
    /\ resp # NoResp
    /\ resp.code = ok
    /\ Len(resp.reactors) = 2
    /\ ~NoExecution(resp.reactors)
    /\ ~SinceLess(resp.now, resp.reactors[1].last, parsedSeconds(resp.seconds))

\* The dispatcher at work: receive, deliver, hand off, execute, report.
Delivering ==
    \/ ListenCheck
    \/ ReceiveError
    \/ Dispatch
    \/ \E r \in Reactors : RangeVisit(r)
    \/ DeliverAccess
    \/ DeliverEnd
    \/ \E r \in Reactors, h \in Handles : HandoffSend(r, h)
    \/ HandoffRelease
    \/ \E r \in Reactors : WorkerRecv(r)
    \/ \E r \in Reactors, h \in Handles, statusOk \in BOOLEAN : WorkerDone(r, h, statusOk)

\* ... while reactors are added and updated.
Next ==
    \/ Delivering
    \/ Receive(MaxReceives)
    \/ \E u \in Updaters, r \in Reactors, c \in ConcValues : UpStore(u, r, c, MaxUpdates)
    \/ \E u \in Updaters : UpSum(u)
    \/ \E u \in Updaters : UpSet(u)

\* The dispatcher through shutdown: Stop/Exit, the drain poll, the closing of
\* the reactors' channels.  The reactor set is the one of construction.
ShuttingDown ==
    \/ DrainCheck
    \/ DrainSleep
    \/ Stop
    \/ \E e \in Exiters : ExitCall(e)
    \/ \E e \in Exiters : ExitEnter(e)
    \/ \E e \in Exiters : SignalDone(e)
    \/ \E r \in Reactors, h \in Handles : HandoffPanic(r, h)
    \/ \E r \in Reactors : CloseCh(r)

NextExit ==
    \/ Delivering
    \/ Receive(MaxExitReceives)
    \/ ShuttingDown

NextExitFair ==
    \/ Delivering
    \/ Receive(MaxFairReceives)
    \/ ShuttingDown

\* AddOrUpdate callers running against each other, nothing else.
NextUpdate ==
    \/ \E u \in Updaters, r \in Reactors, c \in ConcValues :
          UpStore(u, r, c, MaxRaceUpdates)
    \/ \E u \in Updaters : UpSum(u)
    \/ \E u \in Updaters : UpSet(u)

Spec == Init /\ [][Next]_vars

SpecUpdate == Init /\ [][NextUpdate]_vars

SpecExit == Init /\ [][NextExit]_vars

\* Shutdown under fair scheduling: every goroutine that can take a step
\* eventually does, ReceiveMessage returns, and the workers keep taking
\* messages from their channels and finishing their executions.
FairExit ==
    /\ WF_vars(ListenCheck)
    /\ WF_vars(Receive(MaxFairReceives) \/ ReceiveError)
    /\ WF_vars(Dispatch)
    /\ WF_vars(\E r \in Reactors : RangeVisit(r))
    /\ WF_vars(DeliverAccess)
    /\ WF_vars(DeliverEnd)
    /\ WF_vars(DrainCheck)
    /\ WF_vars(DrainSleep)
    /\ WF_vars(\E e \in Exiters : ExitEnter(e))
    /\ WF_vars(\E e \in Exiters : SignalDone(e))
    /\ WF_vars(\E r \in Reactors, h \in Handles : HandoffSend(r, h))
    /\ WF_vars(HandoffRelease)
    /\ WF_vars(\E r \in Reactors : WorkerRecv(r))
    /\ WF_vars(\E r \in Reactors, h \in Handles, statusOk \in BOOLEAN :
                  WorkerDone(r, h, statusOk))

SpecExitFair == Init /\ [][NextExitFair]_vars /\ FairExit

\* Done called in every state of its maps.
NextDone ==
    \E r \in Reactors, h \in Handles, statusOk \in BOOLEAN : WorkerDone(r, h, statusOk)

SpecDone == InitDone /\ [][NextDone]_vars

SpecLog == Init /\ [][NextLog]_vars

SpecHealth == Init /\ [][NextHealth]_vars
====
